---------------------------- MODULE Spec2Model ----------------------------
(***************************************************************************)
(* A model of main.py, the FastAPI download service: the three download    *)
(* routes with the fallback orchestrator and its two strategies, and the   *)
(* two file-serving routes with the path resolver.                         *)
(*                                                                         *)
(* A Python str is a sequence of characters, each character a one-letter   *)
(* TLA+ string, so that startswith, split, strip, quote and unquote work   *)
(* on characters as the code does.  Texts whose characters no operation    *)
(* looks at (status lines, exception messages) are plain TLA+ strings, and *)
(* an f-string is the sequence of its pieces.                              *)
(***************************************************************************)
EXTENDS Naturals, Sequences, FiniteSets

\* -------------------------------------------------------------- bounds
\* Longest path fragment a file request carries, in segments.
MaxSegs == 4
\* Longest URL text a download request carries, in characters.
MaxUrlLen == 2
\* Number of files the strategies write in one run of the model.
MaxClock == 3

\* ------------------------------------------------------------- strings
\* str.startswith
StartsWith(s, t) == Len(s) >= Len(t) /\ SubSeq(s, 1, Len(t)) = t

Min(S) == CHOOSE x \in S : \A y \in S : x <= y
Max(S) == CHOOSE x \in S : \A y \in S : x >= y

\* str.split(sep) for a one-character separator
RECURSIVE split(_, _)
split(s, sep) ==
    LET idx == {i \in 1..Len(s) : s[i] = sep}
    IN  IF idx = {} THEN <<s>>
        ELSE <<SubSeq(s, 1, Min(idx) - 1)>>
                 \o split(SubSeq(s, Min(idx) + 1, Len(s)), sep)

\* sep.join(parts)
RECURSIVE join(_, _)
join(sep, parts) ==
    IF parts = <<>> THEN <<>>
    ELSE IF Len(parts) = 1 THEN parts[1]
    ELSE parts[1] \o sep \o join(sep, Tail(parts))

\* Characters str.strip() removes that the model's texts can hold.
Whitespace == {" ", "\t", "\n", "\r"}

\* As strip, the text left as it is.
strip_none(s) == s

\* str.strip()
strip(s) ==
    LET keep == {i \in 1..Len(s) : s[i] \notin Whitespace}
    IN  IF keep = {} THEN <<>> ELSE SubSeq(s, Min(keep), Max(keep))

\* --------------------------------------------------------------- names
SLASH == <<"/">>
DOT == <<".">>
DOTDOT == <<".", ".">>
TMP == <<"t", "m", "p">>
DATA == <<"d", "a", "t", "a">>
ETC == <<"e", "t", "c">>
PASSWD == <<"p", "a", "s", "s", "w", "d">>
YOUTUBE_DOWNLOADS ==
    <<"y", "o", "u", "t", "u", "b", "e", "_",
      "d", "o", "w", "n", "l", "o", "a", "d", "s">>
MP4 == <<".", "m", "p", "4">>

\* ---------------------------------------------------------- posixpath
\* os.path.join(a, b) for a relative b
pathjoin(a, b) ==
    IF a = <<>> \/ a[Len(a)] = "/" THEN a \o b ELSE a \o SLASH \o b

\* The loop of posixpath.normpath over the components of the path.
RECURSIVE normcomps(_, _, _)
normcomps(comps, new_comps, initial_slashes) ==
    IF comps = <<>> THEN new_comps
    ELSE LET comp == Head(comps)
             n == Len(new_comps)
             next == IF comp \in {<<>>, DOT} THEN new_comps
                     ELSE IF \/ comp # DOTDOT
                             \/ (initial_slashes = 0 /\ n = 0)
                             \/ (n > 0 /\ new_comps[n] = DOTDOT)
                          THEN Append(new_comps, comp)
                     ELSE IF n > 0 THEN SubSeq(new_comps, 1, n - 1)
                     ELSE new_comps
         IN  normcomps(Tail(comps), next, initial_slashes)

\* posixpath.normpath: two leading slashes are kept, three or more are one.
normpath(path) ==
    IF path = <<>> THEN DOT
    ELSE LET initial_slashes ==
                 IF ~StartsWith(path, SLASH) THEN 0
                 ELSE IF StartsWith(path, SLASH \o SLASH)
                         /\ ~StartsWith(path, SLASH \o SLASH \o SLASH)
                      THEN 2 ELSE 1
             body == join(SLASH, normcomps(split(path, "/"), <<>>, initial_slashes))
             out == IF initial_slashes = 2 THEN SLASH \o SLASH \o body
                    ELSE IF initial_slashes = 1 THEN SLASH \o body
                    ELSE body
         IN  IF out = <<>> THEN DOT ELSE out

\* The working directory of the server process; abspath joins it to a
\* relative path only, and every path the code passes is absolute.
cwd == <<"/", "a", "p", "p">>

\* os.path.abspath
abspath(path) ==
    normpath(IF StartsWith(path, SLASH) THEN path ELSE pathjoin(cwd, path))

\* os.path.basename
basename(p) ==
    LET idx == {i \in 1..Len(p) : p[i] = "/"}
    IN  IF idx = {} THEN p ELSE SubSeq(p, Max(idx) + 1, Len(p))

\* os.path.splitext(p)[0]: the extension starts at the last dot of the
\* basename, leading dots of the basename not counted.
splitext_root(p) ==
    LET slashes == {i \in 1..Len(p) : p[i] = "/"}
        start == IF slashes = {} THEN 1 ELSE Max(slashes) + 1
        dots == {i \in start..Len(p) : p[i] = "."}
    IN  IF dots = {} THEN p
        ELSE IF \A i \in start..(Max(dots) - 1) : p[i] = "." THEN p
        ELSE SubSeq(p, 1, Max(dots) - 1)


\* ------------------------------------------------------- configuration
\* DOWNLOAD_DIR as the module sets it at import: under /data when /data is
\* a directory, under /tmp otherwise.
DownloadDir(dataIsDir) ==
    pathjoin(IF dataIsDir THEN SLASH \o DATA ELSE SLASH \o TMP, YOUTUBE_DOWNLOADS)

VARIABLES
    DOWNLOAD_DIR,   \* the download root, fixed at import
    disk,           \* what the file routes find on disk beside the root
    freq,           \* the file request being served
    fresp,          \* its response
    listing,        \* the files of the root: name -> [mtime, by]
    clock,          \* the time of the last write to the root
    pc,             \* where each server process is in its download handler
    req,            \* the download request each server process is serving
    aOut,           \* what Strategy A gave in this call
    bOut,           \* what Strategy B gave in this call
    callsA,         \* invocations of Strategy A in this call
    callsB,         \* invocations of Strategy B in this call
    wrote,          \* the files the strategies of this call wrote
    pickT,          \* the time at which Strategy B listed the root
    ret,            \* what _safe_download gave the route
    resp            \* the response of the download route

fileVars == <<disk, freq, fresp>>
downloadVars == <<listing, clock, pc, req, aOut, bOut, callsA, callsB, wrote, pickT, ret, resp>>
vars == <<DOWNLOAD_DIR, fileVars, downloadVars>>

\* ------------------------------------------------- the disk, file routes
\* The root holds one entry, a.mp4: absent, a regular file, or a symbolic
\* link to /etc/passwd.  /etc/passwd exists or not.  A sibling directory
\* of the root, youtube_downloads2, exists with its own a.mp4, or not.
AFILE == <<"a">> \o MP4
SIBLING == YOUTUBE_DOWNLOADS \o <<"2">>
Disks == [entry : {"none", "file", "link"}, passwd : BOOLEAN, sibling : BOOLEAN]

\* os.path.dirname of the root
RootParent == SubSeq(DOWNLOAD_DIR, 1, Len(DOWNLOAD_DIR) - Len(YOUTUBE_DOWNLOADS) - 1)
EntryPath == pathjoin(DOWNLOAD_DIR, AFILE)
PasswdPath == SLASH \o ETC \o SLASH \o PASSWD
SiblingDir == DOWNLOAD_DIR \o <<"2">>
SiblingFile == pathjoin(SiblingDir, AFILE)

\* os.path.exists: true of a directory or a file, follows a symbolic link,
\* and reads two leading slashes as one.
exists(ap) ==
    LET q == IF StartsWith(ap, SLASH \o SLASH) THEN Tail(ap) ELSE ap
    IN  \/ q \in {SLASH, RootParent, DOWNLOAD_DIR, SLASH \o ETC}
        \/ q = EntryPath /\ (disk.entry = "file" \/ (disk.entry = "link" /\ disk.passwd))
        \/ q = PasswdPath /\ disk.passwd
        \/ q \in {SiblingDir, SiblingFile} /\ disk.sibling

\* --------------------------------------------------------- path resolver
\* raise HTTPException(status_code, detail), as FastAPI answers it
HTTPException(status_code, detail) ==
    [status |-> status_code, body |-> [detail |-> detail]]

\* As LeadingSeparator, the fragment passed on as it came.
LeadingSeparator_none(p) == p

\* line 153: a leading separator is put before a fragment that has none
LeadingSeparator(p) == IF ~StartsWith(p, SLASH) THEN SLASH \o p ELSE p

\* line 155: the test that the path is under the root
UnderRoot(ap) == StartsWith(ap, abspath(DOWNLOAD_DIR))

\* _norm: the rejection, or status 200 with the path returned
_norm(p) ==
    IF p = <<>> THEN HTTPException(400, "Missing file path")
    ELSE LET ap == abspath(LeadingSeparator(p))
         IN  IF ~UnderRoot(ap) THEN HTTPException(403, "Forbidden path")
             ELSE IF ~exists(ap) THEN HTTPException(404, "File not found")
             ELSE [status |-> 200, ap |-> ap]

\* serve_file_legacy and serve_file_alt: the rejection of _norm, or the
\* FileResponse of the path with its basename as file name
serve_file(abs_path) ==
    LET r == _norm(abs_path)
    IN  IF r.status # 200 THEN r
        ELSE [status |-> 200,
              body |-> [file |-> r.ap, filename |-> basename(r.ap),
                        media_type |-> "application/octet-stream"]]

\* ------------------------------------------------------- file requests
\* The path parameter of a request is its segments joined by "/".  An
\* empty segment stands for a doubled or leading or trailing separator:
\* <<"", "tmp">> is "/tmp", <<"", "", "tmp">> is "//tmp".
Fragment(segs) == join(SLASH, segs)

SegNames == {<<>>, DOTDOT, basename(RootParent), YOUTUBE_DOWNLOADS, SIBLING, ETC, PASSWD, AFILE}
SegLists == UNION {[1..n -> SegNames] : n \in 0..MaxSegs}

NoRequest == [route |-> "none"]
NoResponse == [status |-> 0]

ServeFile(route, segs) ==
    /\ freq' = [route |-> route, segs |-> segs]
    /\ fresp' = serve_file(Fragment(segs))
    /\ UNCHANGED <<DOWNLOAD_DIR, disk, downloadVars>>

\* GET /file={abs_path:path}
ServeFileLegacy ==
    /\ freq = NoRequest
    /\ \E segs \in SegLists : ServeFile("/file=", segs)

\* GET /file/{abs_path:path}
ServeFileAlt ==
    /\ freq = NoRequest
    /\ \E segs \in SegLists : ServeFile("/file/", segs)

\* The response is sent; the server is ready for the next file request.
FileDone ==
    /\ freq # NoRequest
    /\ freq' = NoRequest
    /\ fresp' = NoResponse
    /\ UNCHANGED <<DOWNLOAD_DIR, disk, downloadVars>>


\* --------------------------------------------------------- urllib.parse
\* The characters quote never escapes: letters, digits and "_.-~".
Unreserved ==
    { "a", "b", "c", "d", "e", "f", "g", "h", "i", "j", "k", "l",
      "m", "n", "o", "p", "q", "r", "s", "t", "u", "v", "w", "x",
      "y", "z",
      "A", "B", "C", "D", "E", "F", "G", "H", "I", "J", "K", "L",
      "M", "N", "O", "P", "Q", "R", "S", "T", "U", "V", "W", "X",
      "Y", "Z",
      "0", "1", "2", "3", "4", "5", "6", "7", "8", "9",
      "_", ".", "-", "~" }

\* The other characters a file name of the model can hold, each with the
\* two hexadecimal digits of its code.
Escapes ==
    { <<" ", "2", "0">>, <<"#", "2", "3">>, <<"%", "2", "5">>,
      <<"&", "2", "6">>, <<"'", "2", "7">>, <<"?", "3", "F">> }

\* quote(s), safe = "/"
RECURSIVE quote(_)
quote(s) ==
    IF s = <<>> THEN <<>>
    ELSE LET c == Head(s)
             q == IF c \in Unreserved \cup {"/"} THEN <<c>>
                  ELSE LET e == CHOOSE e \in Escapes : e[1] = c
                       IN  <<"%", e[2], e[3]>>
         IN  q \o quote(Tail(s))

FILE_PREFIX == <<"/", "f", "i", "l", "e", "=">>

\* As rel_file, the path not quoted.
rel_file_raw(abs_path) == FILE_PREFIX \o abs_path

\* rel_file
rel_file(abs_path) == FILE_PREFIX \o quote(abs_path)

\* ------------------------------------------------------ JSON and Python
\* A JSON value of a request: null, a string, a number, a list.
Null == [t |-> "null"]
Str(s) == [t |-> "str", v |-> s]
Int(n) == [t |-> "int", v |-> n]
List(l) == [t |-> "list", v |-> l]

\* bool(v)
Truthy(v) ==
    CASE v.t = "null" -> FALSE
      [] v.t = "str" -> v.v # <<>>
      [] v.t = "int" -> v.v # 0
      [] v.t = "list" -> v.v # <<>>

\* v or ""
OrEmpty(v) == IF Truthy(v) THEN v ELSE Str(<<>>)

\* dict.get(k)
Get(d, k) == IF k \in DOMAIN d THEN d[k] ELSE Null

\* An exception: its class name and its message.
Exception(kind, msg) == [kind |-> kind, msg |-> msg]

\* v.strip(): the stripped text, or the AttributeError of a value that is
\* no string
StripValue(v) ==
    IF v.t = "str" THEN [st |-> "ok", url |-> strip(v.v)]
    ELSE [st |-> "raise",
          err |-> Exception("AttributeError", "'int' object has no attribute 'strip'")]

\* ------------------------------------------------------ download routes
POST_DOWNLOAD == "POST /download"
GET_DOWNLOAD == "GET /download"
POST_PREDICT == "POST /api/predict/download"

\* The URL a route reads from its payload, stripped (lines 102, 115 and
\* 134-139); the payload of GET /download is its query parameters.
ParseUrl(route, payload) ==
    IF route = POST_PREDICT
    THEN LET d == Get(payload, "data")
             url0 == IF d.t = "list" /\ d.v # <<>> THEN d.v[1] ELSE Null
             url1 == IF ~Truthy(url0) /\ "url" \in DOMAIN payload
                     THEN payload["url"] ELSE url0
         IN  StripValue(OrEmpty(url1))
    ELSE IF route = GET_DOWNLOAD
    THEN StripValue(OrEmpty(IF "url" \in DOMAIN payload THEN payload["url"] ELSE Str(<<>>)))
    ELSE StripValue(OrEmpty(Get(payload, "url")))

JSONResponse(body, status_code) == [status |-> status_code, body |-> body]

\* f"{type(e).__name__}: {e}"
ErrorText(e) == <<e.kind, ": ", e.msg>>

\* The 400 response of a route whose URL is empty.
BadRequest(route) ==
    IF route = POST_PREDICT
    THEN JSONResponse([error |-> <<"Bad payload. Use {data:[<url>]} or {url:<url>}">>,
                       data |-> <<>>], 400)
    ELSE JSONResponse([error |-> <<"No URL provided">>], 400)

\* The 500 response of a route whose try block raised e.
Failure(route, e) ==
    IF route = POST_PREDICT
    THEN JSONResponse([error |-> ErrorText(e),
                       data |-> <<Null, <<"Error: ">> \o ErrorText(e)>>], 500)
    ELSE JSONResponse([error |-> ErrorText(e)], 500)

\* The 200 response of a route for the file fp.
Success(route, fp, title) ==
    IF route = POST_PREDICT
    THEN JSONResponse(
             [data |-> << [name |-> basename(fp), path |-> fp, url |-> rel_file(fp)],
                          <<"Downloaded '", title, "' successfully!">>,
                          rel_file(fp) >>], 200)
    ELSE JSONResponse(
             [title |-> title, file |-> fp, public_url |-> rel_file(fp),
              status |-> IF route = GET_DOWNLOAD THEN "Downloaded successfully (GET)"
                         ELSE "Downloaded successfully"], 200)

\* What the route answers to the return or the exception of _safe_download.
RouteResponse(route, r) ==
    IF r.st = "ok" THEN Success(route, r.fp, r.title) ELSE Failure(route, r.err)

\* ---------------------------------------------------------- strategies
\* The server processes that share the root.
Workers == {"w1", "w2"}

\* The titles of the videos a URL can name; a strategy writes <title>.mp4.
VideoTitles == { <<"a">>, <<"a", " ", "b">>, <<"%", "2", "0">> }

\* What a strategy gives: nothing yet, a file and its title, or an error.
NoOutcome == [st |-> "none"]
Returned(fp, title) == [st |-> "ok", fp |-> fp, title |-> title]
Raised(e) == [st |-> "err", err |-> e]

\* The errors of download_with_pytube: the network is unreachable, or the
\* video has no progressive stream (line 37).
PytubeErrors ==
    { Exception("URLError", "<urlopen error>"),
      Exception("RuntimeError", "No progressive MP4 stream found.") }

\* The error of download_with_ytdlp when the process exits non-zero (line 52).
YtdlpError == Exception("RuntimeError", "yt-dlp failed:")

\* os.listdir(DOWNLOAD_DIR)
listdir == DOMAIN listing

\* os.path.getmtime of a file of the root
getmtime(p) == listing[basename(p)].mtime

\* A strategy of process w writes the file `name` into the root: a file of
\* that name is replaced, and the mtime of the file is the time of the write.
WriteFile(name, w) ==
    [f \in listdir \cup {name} |->
        IF f = name THEN [mtime |-> clock + 1, by |-> w] ELSE listing[f]]

\* As newest, the path with the least mtime.
oldest ==
    LET paths == {pathjoin(DOWNLOAD_DIR, f) : f \in listdir}
    IN  CHOOSE p \in paths : \A q \in paths : getmtime(q) >= getmtime(p)

\* lines 54-57: the path of the root with the greatest mtime
newest ==
    LET paths == {pathjoin(DOWNLOAD_DIR, f) : f \in listdir}
    IN  CHOOSE p \in paths : \A q \in paths : getmtime(q) <= getmtime(p)

\* -------------------------------------------------------- _safe_download
\* As FirstStrategy, the command-line strategy tried first.
FirstStrategy_ytdlp == "tryB"

\* line 93: the strategy tried first
FirstStrategy == "tryA"

\* As AfterPytubeError, an error that is no URLError tried again.
AfterPytubeError_retry(e) == IF e.kind = "URLError" THEN "tryB" ELSE "tryA"

\* lines 94-97: the strategy called when download_with_pytube raised e
AfterPytubeError(e) == IF e.kind = "URLError" THEN "tryB" ELSE "tryB"

\* As SafeDownloadResult, the outcome of the first strategy kept.
SafeDownloadResult_first(a, b) == IF a.st # "none" THEN a ELSE b

\* What _safe_download gives: the return of download_with_pytube when it
\* returned, and otherwise the return or the exception of download_with_ytdlp.
SafeDownloadResult(a, b) == IF a.st = "ok" THEN a ELSE b

\* Process w calls a strategy.
Invoke(w, strategy) ==
    /\ pc' = [pc EXCEPT ![w] = strategy]
    /\ callsA' = [callsA EXCEPT ![w] = IF strategy = "tryA" THEN @ + 1 ELSE @]
    /\ callsB' = [callsB EXCEPT ![w] = IF strategy = "tryB" THEN @ + 1 ELSE @]

\* _safe_download ends with r, and the route answers.
Return(w, r) ==
    /\ ret' = [ret EXCEPT ![w] = r]
    /\ resp' = [resp EXCEPT ![w] = RouteResponse(req[w].route, r)]
    /\ pc' = [pc EXCEPT ![w] = "done"]
    /\ UNCHANGED <<callsA, callsB>>

\* A download route takes a request: it answers 400 to an empty URL and
\* 500 to a URL that is no string, and otherwise calls _safe_download.
Enter(w, route, payload) ==
    LET u == ParseUrl(route, payload)
    IN  /\ req' = [req EXCEPT ![w] = [route |-> route, payload |-> payload]]
        /\ IF u.st = "raise"
           THEN /\ resp' = [resp EXCEPT ![w] = Failure(route, u.err)]
                /\ pc' = [pc EXCEPT ![w] = "done"]
                /\ UNCHANGED <<callsA, callsB>>
           ELSE IF u.url = <<>>
           THEN /\ resp' = [resp EXCEPT ![w] = BadRequest(route)]
                /\ pc' = [pc EXCEPT ![w] = "done"]
                /\ UNCHANGED <<callsA, callsB>>
           ELSE /\ Invoke(w, FirstStrategy)
                /\ UNCHANGED resp
        /\ UNCHANGED <<DOWNLOAD_DIR, fileVars, listing, clock, aOut, bOut, wrote, pickT, ret>>

\* The requests: a URL text, and the payloads that carry one.
UrlChars == {" ", "u"}
UrlTexts == UNION {[1..n -> UrlChars] : n \in 0..MaxUrlLen}
Values == {Null, Int(7)} \cup {Str(s) : s \in UrlTexts}
EmptyDict == [k \in {} |-> Null]
Dict(keys, url, data) == [k \in keys |-> IF k = "url" THEN url ELSE data]
UrlPayloads == {EmptyDict} \cup {Dict({"url"}, v, Null) : v \in Values}
QueryPayloads == {EmptyDict} \cup {Dict({"url"}, Str(s), Null) : s \in UrlTexts}
DataValues == {List(<<>>)} \cup {List(<<v>>) : v \in Values}
PredictPayloads ==
    UrlPayloads
        \cup {Dict({"data"}, Null, d) : d \in DataValues}
        \cup {Dict({"url", "data"}, v, d) : v \in Values, d \in DataValues}

\* POST /download
download_plain(w) ==
    /\ pc[w] = "idle"
    /\ \E payload \in UrlPayloads : Enter(w, POST_DOWNLOAD, payload)

\* GET /download
download_plain_get(w) ==
    /\ pc[w] = "idle"
    /\ \E payload \in QueryPayloads : Enter(w, GET_DOWNLOAD, payload)

\* POST /api/predict/download
download_gradio(w) ==
    /\ pc[w] = "idle"
    /\ \E payload \in PredictPayloads : Enter(w, POST_PREDICT, payload)

\* download_with_pytube returns: the file is written, the title is the
\* video's, or the file's name when the video has none.
PytubeOk(w) ==
    /\ pc[w] = "tryA"
    /\ clock < MaxClock
    /\ \E t \in VideoTitles, hasTitle \in BOOLEAN :
        LET name == t \o MP4
            fp == pathjoin(DOWNLOAD_DIR, name)
            title == IF hasTitle THEN t ELSE basename(fp)
            out == Returned(abspath(fp), title)
        IN  /\ listing' = WriteFile(name, w)
            /\ clock' = clock + 1
            /\ wrote' = [wrote EXCEPT ![w] = @ \cup {name}]
            /\ aOut' = [aOut EXCEPT ![w] = out]
            /\ Return(w, SafeDownloadResult(out, bOut[w]))
    /\ UNCHANGED <<DOWNLOAD_DIR, fileVars, req, bOut, pickT>>

\* download_with_pytube raises: _safe_download calls the fallback.
PytubeFail(w) ==
    /\ pc[w] = "tryA"
    /\ \E e \in PytubeErrors :
        /\ aOut' = [aOut EXCEPT ![w] = Raised(e)]
        /\ Invoke(w, AfterPytubeError(e))
    /\ UNCHANGED <<DOWNLOAD_DIR, fileVars, listing, clock, req, bOut, wrote, pickT, ret, resp>>

\* The yt-dlp process exits non-zero: download_with_ytdlp raises.
YtdlpFail(w) ==
    /\ pc[w] = "tryB"
    /\ bOut' = [bOut EXCEPT ![w] = Raised(YtdlpError)]
    /\ Return(w, SafeDownloadResult(aOut[w], Raised(YtdlpError)))
    /\ UNCHANGED <<DOWNLOAD_DIR, fileVars, listing, clock, req, aOut, wrote, pickT>>

\* The yt-dlp process writes its file and exits with 0.
YtdlpRun(w) ==
    /\ pc[w] = "tryB"
    /\ clock < MaxClock
    /\ \E t \in VideoTitles :
        /\ listing' = WriteFile(t \o MP4, w)
        /\ wrote' = [wrote EXCEPT ![w] = @ \cup {t \o MP4}]
    /\ clock' = clock + 1
    /\ pc' = [pc EXCEPT ![w] = "pickB"]
    /\ UNCHANGED <<DOWNLOAD_DIR, fileVars, req, aOut, bOut, callsA, callsB, pickT, ret, resp>>

\* download_with_ytdlp lists the root and returns its newest file.
YtdlpPick(w) ==
    /\ pc[w] = "pickB"
    /\ LET out == Returned(abspath(newest), splitext_root(basename(newest)))
       IN  /\ bOut' = [bOut EXCEPT ![w] = out]
           /\ Return(w, SafeDownloadResult(aOut[w], out))
    /\ pickT' = [pickT EXCEPT ![w] = clock]
    /\ UNCHANGED <<DOWNLOAD_DIR, fileVars, listing, clock, req, aOut, wrote>>

\* The response is sent; the process is ready for its next request.
Reset(w) ==
    /\ pc[w] = "done"
    /\ pc' = [pc EXCEPT ![w] = "idle"]
    /\ req' = [req EXCEPT ![w] = NoRequest]
    /\ resp' = [resp EXCEPT ![w] = NoResponse]
    /\ ret' = [ret EXCEPT ![w] = NoOutcome]
    /\ aOut' = [aOut EXCEPT ![w] = NoOutcome]
    /\ bOut' = [bOut EXCEPT ![w] = NoOutcome]
    /\ callsA' = [callsA EXCEPT ![w] = 0]
    /\ callsB' = [callsB EXCEPT ![w] = 0]
    /\ wrote' = [wrote EXCEPT ![w] = {}]
    /\ pickT' = [pickT EXCEPT ![w] = 0]
    /\ UNCHANGED <<DOWNLOAD_DIR, fileVars, listing, clock>>

\* ------------------------------------------------------- specifications
InitDownload ==
    /\ listing = [f \in {} |-> 0]
    /\ clock = 0
    /\ pc = [w \in Workers |-> "idle"]
    /\ req = [w \in Workers |-> NoRequest]
    /\ resp = [w \in Workers |-> NoResponse]
    /\ ret = [w \in Workers |-> NoOutcome]
    /\ aOut = [w \in Workers |-> NoOutcome]
    /\ bOut = [w \in Workers |-> NoOutcome]
    /\ callsA = [w \in Workers |-> 0]
    /\ callsB = [w \in Workers |-> 0]
    /\ wrote = [w \in Workers |-> {}]
    /\ pickT = [w \in Workers |-> 0]

\* One server process: its event loop runs one handler at a time, since no
\* handler awaits.  Every payload of every download route.
Init ==
    /\ DOWNLOAD_DIR \in {DownloadDir(d) : d \in BOOLEAN}
    /\ disk \in {d \in Disks : d.entry = "none" /\ d.passwd /\ ~d.sibling}
    /\ freq = NoRequest
    /\ fresp = NoResponse
    /\ InitDownload

Strategies(w) ==
    \/ PytubeOk(w)
    \/ PytubeFail(w)
    \/ YtdlpFail(w)
    \/ YtdlpRun(w)
    \/ YtdlpPick(w)
    \/ Reset(w)

Next ==
    \E w \in {"w1"} :
        \/ download_plain(w)
        \/ download_plain_get(w)
        \/ download_gradio(w)
        \/ Strategies(w)

Spec == Init /\ [][Next]_vars

\* Several server processes over one root, each serving POST /download
\* requests that carry a URL: what a process does between two blocking
\* calls is one step.
AUrl == Str(<<"u">>)

download_concurrent(w) ==
    /\ pc[w] = "idle"
    /\ Enter(w, POST_DOWNLOAD, Dict({"url"}, AUrl, Null))

NextConc == \E w \in Workers : download_concurrent(w) \/ Strategies(w)

SpecConc == Init /\ [][NextConc]_vars

\* The file routes, over every disk.
InitFile ==
    /\ DOWNLOAD_DIR \in {DownloadDir(d) : d \in BOOLEAN}
    /\ disk \in Disks
    /\ freq = NoRequest
    /\ fresp = NoResponse
    /\ InitDownload

NextFile == ServeFileLegacy \/ ServeFileAlt \/ FileDone

SpecFile == InitFile /\ [][NextFile]_vars

\* --------------------------------------------------------------- claims
\* What a client and the file system make of a request, apart from the code.

\* The walk of the segments of a fragment from "/": an empty segment and
\* "." stay, ".." goes up (and stays at "/"), a name goes down.
RECURSIVE Walk(_, _)
Walk(segs, at) ==
    IF segs = <<>> THEN at
    ELSE LET g == Head(segs)
         IN  Walk(Tail(segs),
                  IF g \in {<<>>, DOT} THEN at
                  ELSE IF g = DOTDOT
                       THEN (IF at = <<>> THEN at ELSE SubSeq(at, 1, Len(at) - 1))
                  ELSE Append(at, g))

\* The segments of the absolute path a fragment names.
Target(segs) == Walk(segs, <<>>)

IsPrefix(a, b) == Len(b) >= Len(a) /\ SubSeq(b, 1, Len(a)) = a
RootSegs == <<basename(RootParent), YOUTUBE_DOWNLOADS>>
EntrySegs == Append(RootSegs, AFILE)

\* The path with the symbolic link of the root followed.
Canonical(segs) ==
    LET t == Target(segs)
    IN  IF disk.entry = "link" /\ IsPrefix(EntrySegs, t)
        THEN <<ETC, PASSWD>> \o SubSeq(t, Len(EntrySegs) + 1, Len(t))
        ELSE t

\* The path is the root or a descendant of it.
InsideRoot(t) == IsPrefix(RootSegs, t)

Range(f) == {f[i] : i \in DOMAIN f}

\* unquote(s): a "%" with the two digits of a code is the character of
\* that code; any other "%" stays as it is.
RECURSIVE unquote(_)
unquote(s) ==
    IF s = <<>> THEN <<>>
    ELSE IF /\ s[1] = "%"
            /\ Len(s) >= 3
            /\ \E e \in Escapes : e[2] = s[2] /\ e[3] = s[3]
         THEN LET e == CHOOSE e \in Escapes : e[2] = s[2] /\ e[3] = s[3]
              IN  <<e[1]>> \o unquote(SubSeq(s, 4, Len(s)))
    ELSE <<s[1]>> \o unquote(Tail(s))

\* The path a client reads from a public-url reference: the reference
\* percent-decoded, its "/file=" prefix removed.
PathOfReference(ref) ==
    LET d == unquote(ref)
    IN  IF StartsWith(d, FILE_PREFIX) THEN SubSeq(d, Len(FILE_PREFIX) + 1, Len(d)) ELSE <<>>

\* The path is below the download root.
BelowRoot(fp) == StartsWith(fp, DOWNLOAD_DIR \o SLASH)

\* A value that carries no URL: null, or a text of whitespace only.
BlankValue(v) ==
    \/ v.t = "null"
    \/ v.t = "str" /\ \A i \in 1..Len(v.v) : v.v[i] \in Whitespace

\* A request whose URL is missing, empty or whitespace only.
EmptyInput(r) ==
    /\ "url" \notin DOMAIN r.payload \/ BlankValue(r.payload["url"])
    /\ \/ "data" \notin DOMAIN r.payload
       \/ r.payload["data"].v = <<>>
       \/ BlankValue(r.payload["data"].v[1])

\* An error text of the shape "<Kind>: <message>".
KindAndMessage(body) ==
    /\ "error" \in DOMAIN body
    /\ Len(body.error) = 3
    /\ body.error[2] = ": "

\* C1: the path resolver rejects with 403 every non-empty fragment whose
\* resolved path, symbolic links followed, is neither the download root nor
\* a descendant of it.  The code compares strings: a sibling of the root
\* whose name starts with the root's, and a link out of the root, pass.
C1_RejectsOutsideRoot ==
    (/\ freq # NoRequest
     /\ Fragment(freq.segs) # <<>>
     /\ ~InsideRoot(Canonical(freq.segs)))
        => fresp.status = 403

\* C2: a fragment with ".." segments whose target is outside the download
\* root is answered 403, never 404 and never with a path, whether the
\* target exists or not.  A target beside the root whose name starts with
\* the root's passes the string comparison of C1.
C2_TraversalForbidden ==
    (/\ freq # NoRequest
     /\ DOTDOT \in Range(freq.segs)
     /\ ~InsideRoot(Target(freq.segs)))
        => fresp.status = 403

C3_FallbackOnce ==
    \A w \in Workers :
        aOut[w].st = "err" =>
            /\ callsA[w] = 1
            /\ callsB[w] = 1
            /\ pc[w] = "done" => (bOut[w].st # "none" /\ ret[w] = bOut[w])

\* C3 happens: Strategy A failed and the call returned the file of Strategy B.
C3_Witness ==
    \E w \in Workers :
        /\ pc[w] = "done"
        /\ aOut[w].st = "err"
        /\ bOut[w].st = "ok"
        /\ ret[w] = bOut[w]
        /\ resp[w].status = 200

\* C9: in a call of _safe_download Strategy A is invoked first and once;
\* when it succeeds the call ends with its result and Strategy B is never
\* invoked; Strategy B is invoked only after Strategy A failed in the call.
C9_PytubeFirst ==
    \A w \in Workers :
        /\ callsA[w] <= 1
        /\ pc[w] \in {"tryA", "tryB", "pickB"} => callsA[w] = 1
        /\ ret[w].st # "none" => callsA[w] = 1
        /\ callsB[w] > 0 => (callsA[w] = 1 /\ aOut[w].st = "err")
        /\ aOut[w].st = "ok" =>
              (pc[w] = "done" /\ ret[w] = aOut[w] /\ callsB[w] = 0 /\ bOut[w].st = "none")

\* C9 happens: Strategy A succeeded and the call returned its file.
C9_Witness ==
    \E w \in Workers :
        /\ pc[w] = "done"
        /\ aOut[w].st = "ok"
        /\ ret[w] = aOut[w]
        /\ callsB[w] = 0

\* C4: a download request whose URL is missing, empty or whitespace only
\* is answered 400, neither strategy is invoked, and no file is written.
C4_EmptyUrlRejected ==
    \A w \in Workers :
        (req[w] # NoRequest /\ EmptyInput(req[w])) =>
            /\ pc[w] = "done"
            /\ resp[w].status = 400
            /\ callsA[w] = 0 /\ callsB[w] = 0
            /\ aOut[w].st = "none" /\ bOut[w].st = "none"
            /\ wrote[w] = {}

\* C4 happens: POST /api/predict/download got a URL of one space and
\* answered 400.
C4_Witness ==
    \E w \in Workers :
        /\ req[w] # NoRequest
        /\ req[w].route = POST_PREDICT
        /\ req[w].payload = Dict({"data"}, Null, List(<<Str(<<" ">>)>>))
        /\ resp[w].status = 400

\* C5: when both strategies failed the route answers 500, its error text is
\* the kind and the message of Strategy B's error, and the response names
\* no file and no public-url reference.
C5_BothFail ==
    \A w \in Workers :
        (pc[w] = "done" /\ aOut[w].st = "err" /\ bOut[w].st = "err") =>
            LET e == bOut[w].err
                body == resp[w].body
            IN  /\ resp[w].status = 500
                /\ body.error = <<e.kind, ": ", e.msg>>
                /\ DOMAIN body \subseteq {"error", "data"}
                /\ "data" \in DOMAIN body =>
                       body.data = <<Null, <<"Error: ", e.kind, ": ", e.msg>> >>

\* C5 happens: both strategies failed with errors of different kinds.
C5_Witness ==
    \E w \in Workers :
        /\ pc[w] = "done"
        /\ aOut[w].st = "err" /\ aOut[w].err.kind = "URLError"
        /\ bOut[w].st = "err"
        /\ resp[w].status = 500

\* C6: in a successful download response the public-url reference,
\* percent-decoded and without its "/file=" prefix, is the absolute path
\* of the same response, and that path is below the download root.
C6_ReferenceNamesFile ==
    \A w \in Workers :
        (pc[w] = "done" /\ resp[w].status = 200) =>
            LET body == resp[w].body
                path == IF req[w].route = POST_PREDICT THEN body.data[1].path ELSE body.file
                ref == IF req[w].route = POST_PREDICT THEN body.data[3] ELSE body.public_url
            IN  /\ PathOfReference(ref) = path
                /\ BelowRoot(path)
                /\ req[w].route = POST_PREDICT => PathOfReference(body.data[1].url) = path

\* C6 happens: a file whose name holds "%" was downloaded through
\* POST /api/predict/download.
C6_Witness ==
    \E w \in Workers :
        /\ pc[w] = "done"
        /\ resp[w].status = 200
        /\ req[w].route = POST_PREDICT
        /\ "%" \in Range(resp[w].body.data[1].path)

\* C7: every error response of every route is {"error": "<Kind>: <message>"}.
\* The 400 of the download routes has a message and no kind; the
\* rejections of the file routes have "detail" and no "error".
C7_ErrorShape ==
    /\ \A w \in Workers :
          (pc[w] = "done" /\ resp[w].status # 200) => KindAndMessage(resp[w].body)
    /\ (freq # NoRequest /\ fresp.status # 200) => KindAndMessage(fresp.body)

\* C10: a successful call of Strategy B returns the file of the root that
\* was newest when the call listed the root, whichever call wrote it: no
\* file written before the listing is newer than the file returned.
C10_NewestWhenListed ==
    \A w \in Workers :
        (pc[w] = "done" /\ bOut[w].st = "ok") =>
            LET r == basename(bOut[w].fp)
            IN  /\ r \in listdir
                /\ \A f \in listdir :
                      listing[f].mtime > listing[r].mtime => listing[f].mtime > pickT[w]

\* C10 happens: of two simultaneous calls of Strategy B, one returns the
\* file the other wrote and not the file its own process wrote.
C10_CrossAttributed ==
    \E w \in Workers, v \in Workers :
        /\ v # w
        /\ pc[w] = "done" /\ bOut[w].st = "ok" /\ resp[w].status = 200
        /\ callsB[v] = 1
        /\ LET r == basename(bOut[w].fp)
           IN  /\ r \notin wrote[w]
               /\ r \in wrote[v]
               /\ listing[r].by = v

=============================================================================
